---- MODULE Spec2Model ----
(***************************************************************************)
(* Extended audio generation: planning, segment loop, crossfade blending   *)
(* and the dispatch adapter that routes short requests to the base         *)
(* processor (src/audio/extended_generation.rs and                         *)
(* src/backend/extended_audio_backend.rs).                                 *)
(*                                                                         *)
(* Samples, progress values and crossfade_duration are f32 in the source.  *)
(* They are modelled as IEEE-754 binary32 values [m, e] denoting m * 2^e   *)
(* with m = 0 or 2^23 <= m < 2^24, and every arithmetic operation rounds    *)
(* to nearest, ties to even, as the hardware does.  Only non-negative      *)
(* finite values in the normal range occur in the model.                   *)
(***************************************************************************)
EXTENDS Integers, Sequences, FiniteSets, TLC

(***************************************************************************)
(* f32 arithmetic                                                          *)
(***************************************************************************)
MantBits == 24

F32Zero == [m |-> 0, e |-> 0]

Max(a, b) == IF a >= b THEN a ELSE b

Min(a, b) == IF a <= b THEN a ELSE b

\* number of bits of n (0 < n < 2^30)
BitLen(n) == CHOOSE k \in 1..30 : 2^(k-1) <= n /\ n < 2^k

\* The f32 nearest to (n + f) * 2^e, where n is an integer, 0 <= f < 1 and
\* sticky says f > 0; a caller that passes sticky passes n >= 2^24.
RoundPack(n, sticky, e) ==
    IF n = 0 THEN F32Zero
    ELSE LET len == BitLen(n) IN
         IF len <= MantBits
         THEN [m |-> n * 2^(MantBits - len), e |-> e - (MantBits - len)]
         ELSE LET s    == len - MantBits
                  q    == n \div 2^s
                  r    == n % 2^s
                  half == 2^(s-1)
                  up   == r > half \/ (r = half /\ (sticky \/ q % 2 = 1))
                  m1   == IF up THEN q + 1 ELSE q
              IN IF m1 = 2^MantBits
                 THEN [m |-> 2^(MantBits-1), e |-> e + s + 1]
                 ELSE [m |-> m1, e |-> e + s]

\* `n as f32`
F32FromInt(n) == RoundPack(n, FALSE, 0)

\* `x as usize`: truncation toward zero
F32ToUsize(x) ==
    IF x.m = 0 THEN 0
    ELSE IF x.e >= 0 THEN x.m * 2^x.e
    ELSE IF -x.e >= MantBits THEN 0
    ELSE x.m \div 2^(-x.e)

F32Le(a, b) ==
    IF a.m = 0 THEN TRUE
    ELSE IF b.m = 0 THEN FALSE
    ELSE a.e < b.e \/ (a.e = b.e /\ a.m <= b.m)

F32Gt(a, b) == ~F32Le(a, b)

\* a + b
F32Add(a, b) ==
    IF a.m = 0 THEN b
    ELSE IF b.m = 0 THEN a
    ELSE LET hi == IF a.e >= b.e THEN a ELSE b
             lo == IF a.e >= b.e THEN b ELSE a
             d  == hi.e - lo.e
         IN IF d = 0 THEN RoundPack(hi.m + lo.m, FALSE, hi.e)
            ELSE LET sh == Min(d - 1, MantBits + 1)
                 IN RoundPack(2 * hi.m + (lo.m \div 2^sh),
                              lo.m % 2^sh # 0, hi.e - 1)

\* a - b for a >= b
F32Sub(a, b) ==
    IF b.m = 0 THEN a
    ELSE LET d == a.e - b.e
         IN IF d <= 1 THEN RoundPack(a.m * 2^d - b.m, FALSE, b.e)
            ELSE LET sh == Min(d - 2, MantBits + 1)
                     q  == b.m \div 2^sh
                     r  == b.m % 2^sh
                 IN IF r = 0 THEN RoundPack(4 * a.m - q, FALSE, a.e - 2)
                    ELSE RoundPack(4 * a.m - q - 1, TRUE, a.e - 2)

\* a * b, by 12-bit limbs so that no partial product exceeds 2^25
F32Mul(a, b) ==
    IF a.m = 0 \/ b.m = 0 THEN F32Zero
    ELSE LET ah   == a.m \div 4096
             al   == a.m % 4096
             bh   == b.m \div 4096
             bl   == b.m % 4096
             mid  == ah * bl + al * bh
             low  == (mid % 4096) * 4096 + al * bl
             high == ah * bh + (mid \div 4096) + (low \div 2^24)
             rest == low % 2^24
         IN RoundPack(4 * high + (rest \div 2^22), rest % 2^22 # 0,
                      a.e + b.e + 22)

\* quotient digits of r / d after k more doublings: <<quotient, remainder>>
RECURSIVE LongDiv(_, _, _, _)
LongDiv(q, r, d, k) ==
    IF k = 0 THEN <<q, r>>
    ELSE IF 2 * r >= d THEN LongDiv(2 * q + 1, 2 * r - d, d, k - 1)
         ELSE LongDiv(2 * q, 2 * r, d, k - 1)

\* a / b for b # 0
F32Div(a, b) ==
    IF a.m = 0 THEN F32Zero
    ELSE LET qr == LongDiv(a.m \div b.m, a.m % b.m, b.m, MantBits + 2)
         IN RoundPack(qr[1], qr[2] # 0, a.e - b.e - (MantBits + 2))


(***************************************************************************)
(* Program constants and model bounds                                      *)
(***************************************************************************)
SegmentLimit == 30      \* validate(): segment_duration > 30 is rejected
SafeLimit == 30         \* generate_segment(): duration.min(30)
DirectLimit == 30       \* process(): secs <= 30 goes to the base processor

MaxTarget == 3          \* small target durations 0..MaxTarget
MaxSegment == 3         \* small segment durations 0..MaxSegment
MaxOverlap == 2         \* overlap durations 0..MaxOverlap
MaxCrossfadeHalves == 5 \* crossfade durations 0, 0.5, .. in half seconds
MaxRate == 2            \* sample rates 0..MaxRate
MaxOver == 1            \* how far durations go beyond the 30 second limits
ProgressTotal == 2      \* the base processor reports elapsed in 0..ProgressTotal
MaxLen == 3             \* longest buffer handed to crossfade_segments alone

Half(k) == F32Div(F32FromInt(k), F32FromInt(2))

\* ExtendedGenerationConfig::default()
DefaultConfig ==
    [target_duration |-> 240, segment_duration |-> 28,
     overlap_duration |-> 4, crossfade_duration |-> F32FromInt(2)]

\* plans with small durations, and plans at and beyond the 30 second limits
Configs ==
    [target_duration : 0..MaxTarget,
     segment_duration : 0..MaxSegment,
     overlap_duration : 0..MaxOverlap,
     crossfade_duration : {Half(k) : k \in 0..MaxCrossfadeHalves}]
    \cup
    [target_duration : {MaxTarget} \cup ((DirectLimit+1)..(DirectLimit+MaxOver)),
     segment_duration : SegmentLimit..(SegmentLimit+MaxOver),
     overlap_duration : 0..MaxOverlap,
     crossfade_duration : {Half(k) : k \in 0..MaxCrossfadeHalves}]
    \cup {DefaultConfig}

\* the durations asked of process(): around the 30 second dispatch limit
Seconds == (DirectLimit-1)..(DirectLimit+1)

Prompts == {"calm piano", "fast drums"}

\* the constant sample of the stub base processor: vec![0.5; samples]
StubSample == Half(1)

(***************************************************************************)
(* Generation plan                                                         *)
(***************************************************************************)
\* mutant: overlap_duration > segment_duration
validate_overlap_gt(c) ==
    IF c.segment_duration > SegmentLimit THEN "segment"
    ELSE IF c.overlap_duration > c.segment_duration THEN "overlap"
    ELSE IF F32Gt(c.crossfade_duration, F32FromInt(c.overlap_duration))
         THEN "crossfade"
    ELSE "ok"

validate(c) ==
    IF c.segment_duration > SegmentLimit THEN "segment"
    ELSE IF c.overlap_duration >= c.segment_duration THEN "overlap"
    ELSE IF F32Gt(c.crossfade_duration, F32FromInt(c.overlap_duration))
         THEN "crossfade"
    ELSE "ok"

\* mutant: division rounding down
num_segments_floor(c) ==
    LET effective_segment == c.segment_duration - c.overlap_duration
    IN Max(c.target_duration \div effective_segment, 1)

num_segments(c) ==
    LET effective_segment == c.segment_duration - c.overlap_duration
    IN Max((c.target_duration + effective_segment - 1) \div effective_segment, 1)

create_segment_prompt(base_prompt, segment_index, total_segments) ==
    IF segment_index = 0
    THEN [base |-> base_prompt, hint |-> "introduction, opening"]
    ELSE IF segment_index = total_segments - 1
    THEN [base |-> base_prompt, hint |-> "conclusion, ending, outro"]
    ELSE IF segment_index = total_segments \div 2
    THEN [base |-> base_prompt, hint |-> "bridge, development, variation"]
    ELSE IF segment_index < total_segments \div 3
    THEN [base |-> base_prompt, hint |-> "building, developing"]
    ELSE [base |-> base_prompt, hint |-> ""]

(***************************************************************************)
(* Blend engine                                                            *)
(***************************************************************************)
\* segment1[idx] * fade_out + segment2[i] * fade_in at loop index i
blend(x1, x2, i, crossfade_samples) ==
    LET fade_position == F32Div(F32FromInt(i), F32FromInt(crossfade_samples))
        fade_out      == F32Sub(F32FromInt(1), fade_position)
        fade_in       == fade_position
    IN F32Add(F32Mul(x1, fade_out), F32Mul(x2, fade_in))

\* mutant: the fallback is taken one sample too late
crossfade_segments_late_fallback(s1, s2, overlap, fade) ==
    IF Len(s1) + 1 < overlap
    THEN s1 \o s2
    ELSE LET crossfade_start == Max(Len(s1) - fade, 0)
             skip_samples    == Min(fade, Len(s2))
             faded == [idx \in 1..Len(s1) |->
                         LET i == (idx - 1) - crossfade_start
                         IN IF i >= 0 /\ i < skip_samples
                            THEN blend(s1[idx], s2[i + 1], i, fade)
                            ELSE s1[idx]]
         IN faded \o SubSeq(s2, skip_samples + 1, Len(s2))

crossfade_segments(segment1, segment2, overlap_samples, crossfade_samples) ==
    IF Len(segment1) < overlap_samples
    THEN segment1 \o segment2
    ELSE LET crossfade_start == Max(Len(segment1) - crossfade_samples, 0)
             skip_samples    == Min(crossfade_samples, Len(segment2))
             faded == [idx \in 1..Len(segment1) |->
                         LET i == (idx - 1) - crossfade_start
                         IN IF i >= 0 /\ i < skip_samples
                            THEN blend(segment1[idx], segment2[i + 1], i,
                                       crossfade_samples)
                            ELSE segment1[idx]]
         IN faded \o SubSeq(segment2, skip_samples + 1, Len(segment2))

\* mutant: one sample too many is kept
truncate_keeps_one_more(audio, len) ==
    IF Len(audio) > len + 1 THEN SubSeq(audio, 1, len + 1) ELSE audio

\* VecDeque::truncate
truncate(audio, len) ==
    IF Len(audio) > len THEN SubSeq(audio, 1, len) ELSE audio

overlap_samples_of(c, rate) ==
    F32ToUsize(F32Mul(F32FromInt(c.overlap_duration), F32FromInt(rate)))

crossfade_samples_of(c, rate) ==
    F32ToUsize(F32Mul(c.crossfade_duration, F32FromInt(rate)))


(***************************************************************************)
(* State                                                                   *)
(***************************************************************************)
VARIABLES
    config,            \* the ExtendedGenerationConfig given to new()
    sample_rate,       \* the sample rate given to new()
    pc,                \* "new", "rejected", "ready", "direct", "segment", "done", "failed";
                       \* "blend", "blended" when crossfade_segments is called alone
    prompt,            \* process(): prompt
    secs,              \* process(): secs
    total_segments,    \* generate(): num_segments
    segment_index,     \* generate(): i
    final_audio,       \* generate(): final_audio
    all_full,          \* every segment so far had duration * sample_rate samples
    accumulated,       \* final_audio.len() right before truncate()
    segment_requests,  \* generate_segment calls so far: [prompt, duration, segment_index]
    base_calls,        \* base processor calls so far: [prompt, secs, callback]
    elapsed,           \* last elapsed the base processor reported in this call, -1 if none
    reported,          \* arguments of the caller's last on_progress call
    caller_abort,      \* what the caller's on_progress returned last
    callback_result,   \* what the callback handed to the base processor returned last
    base_out,          \* what the base processor returned last
    result,            \* what process() returned: [kind, audio]
    segment1,          \* crossfade_segments called alone: first buffer
    segment2,          \*   second buffer
    overlap_samples,   \*   overlap_samples
    crossfade_samples, \*   crossfade_samples
    crossfaded         \*   the returned buffer

pipeline_vars ==
    <<config, sample_rate, pc, prompt, secs, total_segments, segment_index,
      final_audio, all_full, accumulated, segment_requests, base_calls,
      elapsed, reported, caller_abort, callback_result, base_out, result>>

blend_vars ==
    <<segment1, segment2, overlap_samples, crossfade_samples, crossfaded>>

vars == <<pipeline_vars, blend_vars>>

NoOutcome == [kind |-> "none", audio |-> <<>>]

NoReport == [elapsed |-> F32Zero, total |-> F32Zero]

PlainPrompt(p) == [base |-> p, hint |-> ""]

Samples(n) == [k \in 1..n |-> StubSample]

\* the default plan has 10 segments of 28 seconds: it is run at rates 0 and 1
Init ==
    /\ config \in Configs
    /\ sample_rate \in 0..MaxRate
    /\ config = DefaultConfig => sample_rate <= 1
    /\ pc = "new"
    /\ prompt = ""
    /\ secs = 0
    /\ total_segments = 0
    /\ segment_index = 0
    /\ final_audio = <<>>
    /\ all_full = TRUE
    /\ accumulated = 0
    /\ segment_requests = <<>>
    /\ base_calls = <<>>
    /\ elapsed = -1
    /\ reported = NoReport
    /\ caller_abort = FALSE
    /\ callback_result = FALSE
    /\ base_out = NoOutcome
    /\ result = NoOutcome
    /\ segment1 = <<>>
    /\ segment2 = <<>>
    /\ overlap_samples = 0
    /\ crossfade_samples = 0
    /\ crossfaded = <<>>

(***************************************************************************)
(* Construction                                                            *)
(***************************************************************************)
\* ExtendedJobProcessor::new -> ExtendedAudioGenerator::new -> validate
New ==
    /\ pc = "new"
    /\ IF validate(config) = "ok"
       THEN pc' = "ready" /\ result' = result
       ELSE pc' = "rejected" /\ result' = [kind |-> "config", audio |-> <<>>]
    /\ UNCHANGED <<config, sample_rate, prompt, secs, total_segments,
                   segment_index, final_audio, all_full, accumulated,
                   segment_requests, base_calls, elapsed, reported,
                   caller_abort, callback_result, base_out>>
    /\ UNCHANGED blend_vars

(***************************************************************************)
(* Dispatch                                                                *)
(***************************************************************************)
\* mutant: secs < 30
uses_base_strict(s) == s < DirectLimit

\* process(): if secs <= 30
uses_base(s) == s <= DirectLimit

\* MusicGPTSegmentGenerator::generate_segment: duration.min(30)
safe_duration(duration) == Min(duration, SafeLimit)

\* generate(): the generate_segment call of loop iteration i, and the base
\* processor call that MusicGPTSegmentGenerator makes for it
RequestSegment(p, i, n) ==
    LET segment_prompt == create_segment_prompt(p, i, n)
    IN /\ segment_requests' = Append(segment_requests,
              [prompt |-> segment_prompt,
               duration |-> config.segment_duration,
               segment_index |-> i])
       /\ base_calls' = Append(base_calls,
              [prompt |-> segment_prompt,
               secs |-> safe_duration(config.segment_duration),
               callback |-> "adapter"])
       /\ elapsed' = -1

\* ExtendedJobProcessor::process, up to its first call of the base processor
Process(p, s) ==
    /\ pc = "ready"
    /\ prompt' = p
    /\ secs' = s
    /\ IF uses_base(s)
       THEN /\ pc' = "direct"
            /\ base_calls' = Append(base_calls,
                   [prompt |-> PlainPrompt(p), secs |-> s, callback |-> "caller"])
            /\ elapsed' = -1
            /\ UNCHANGED <<total_segments, segment_index, segment_requests>>
       ELSE /\ pc' = "segment"
            /\ total_segments' = num_segments(config)
            /\ segment_index' = 0
            /\ RequestSegment(p, 0, num_segments(config))
    /\ UNCHANGED <<config, sample_rate, final_audio, all_full, accumulated,
                   reported, caller_abort, callback_result, base_out, result>>
    /\ UNCHANGED blend_vars


(***************************************************************************)
(* The base processor (JobProcessor), after the stub DummyProcessor: it    *)
(* reports progress through the callback it was given, stops with an error *)
(* when the callback returns true, and returns secs * sample_rate samples. *)
(* Unlike the stub it may also fail on its own or deliver a short buffer.  *)
(***************************************************************************)
\* mutant: the caller's abort is passed through
adapter_callback_passes_abort(abort) == abort

\* the callback MusicGPTSegmentGenerator hands to the base processor returns
\* `false // Don't abort`, whatever the caller's callback returned
adapter_callback_result(abort) == FALSE

\* generate(): segment_progress + (seg_progress / num_segments as f32)
total_progress(i, n, seg_progress) ==
    LET segment_progress == F32Div(F32FromInt(i), F32FromInt(n))
    IN F32Add(segment_progress, F32Div(seg_progress, F32FromInt(n)))

\* the base processor calls on_progress(k, ProgressTotal) on the direct path:
\* the callback is the caller's own
DirectProgress(k, abort) ==
    /\ pc = "direct"
    /\ k > elapsed
    /\ elapsed' = k
    /\ reported' = [elapsed |-> F32FromInt(k), total |-> F32FromInt(ProgressTotal)]
    /\ caller_abort' = abort
    /\ callback_result' = abort
    /\ IF abort
       THEN /\ pc' = "failed"
            /\ base_out' = [kind |-> "aborted", audio |-> <<>>]
            /\ result' = [kind |-> "aborted", audio |-> <<>>]
       ELSE UNCHANGED <<pc, base_out, result>>
    /\ UNCHANGED <<config, sample_rate, prompt, secs, total_segments,
                   segment_index, final_audio, all_full, accumulated,
                   segment_requests, base_calls>>
    /\ UNCHANGED blend_vars

\* the base processor returns Ok on the direct path; process() returns it
DirectReturn(len) ==
    /\ pc = "direct"
    /\ pc' = "done"
    /\ base_out' = [kind |-> "ok", audio |-> Samples(len)]
    /\ result' = [kind |-> "ok", audio |-> Samples(len)]
    /\ UNCHANGED <<config, sample_rate, prompt, secs, total_segments,
                   segment_index, final_audio, all_full, accumulated,
                   segment_requests, base_calls, elapsed, reported,
                   caller_abort, callback_result>>
    /\ UNCHANGED blend_vars

\* the base processor returns Err on the direct path; process() returns it
DirectFail ==
    /\ pc = "direct"
    /\ pc' = "failed"
    /\ base_out' = [kind |-> "base_error", audio |-> <<>>]
    /\ result' = [kind |-> "base_error", audio |-> <<>>]
    /\ UNCHANGED <<config, sample_rate, prompt, secs, total_segments,
                   segment_index, final_audio, all_full, accumulated,
                   segment_requests, base_calls, elapsed, reported,
                   caller_abort, callback_result>>
    /\ UNCHANGED blend_vars

\* the base processor calls on_progress(k, ProgressTotal) during a segment:
\* MusicGPTSegmentGenerator's closure -> generate()'s closure ->
\* generate_extended()'s closure -> the caller's on_progress(progress, 1.0)
SegmentProgress(k, abort) ==
    /\ pc = "segment"
    /\ k > elapsed
    /\ elapsed' = k
    /\ LET seg_progress == F32Div(F32FromInt(k), F32FromInt(ProgressTotal))
       IN reported' = [elapsed |-> total_progress(segment_index, total_segments,
                                                  seg_progress),
                       total |-> F32FromInt(1)]
    /\ caller_abort' = abort
    /\ callback_result' = adapter_callback_result(abort)
    /\ IF callback_result'
       THEN /\ pc' = "failed"
            /\ base_out' = [kind |-> "aborted", audio |-> <<>>]
            /\ result' = [kind |-> "aborted", audio |-> <<>>]
            /\ final_audio' = <<>>
       ELSE UNCHANGED <<pc, base_out, result, final_audio>>
    /\ UNCHANGED <<config, sample_rate, prompt, secs, total_segments,
                   segment_index, all_full, accumulated,
                   segment_requests, base_calls>>
    /\ UNCHANGED blend_vars

(***************************************************************************)
(* Extended generator                                                      *)
(***************************************************************************)
\* generate(): one loop iteration after generate_segment returned Ok with
\* len samples, then either the next generate_segment call or the truncation
\* and the return
SegmentReturn(len) ==
    /\ pc = "segment"
    /\ base_out' = [kind |-> "ok", audio |-> Samples(len)]
    /\ all_full' = (all_full /\ len = config.segment_duration * sample_rate)
    /\ LET segment_audio == Samples(len)
           blended ==
               IF segment_index = 0
               THEN final_audio \o segment_audio
               ELSE crossfade_segments(final_audio, segment_audio,
                        overlap_samples_of(config, sample_rate),
                        crossfade_samples_of(config, sample_rate))
       IN IF segment_index + 1 < total_segments
          THEN /\ final_audio' = blended
               /\ segment_index' = segment_index + 1
               /\ RequestSegment(prompt, segment_index + 1, total_segments)
               /\ UNCHANGED <<pc, accumulated, result>>
          ELSE /\ accumulated' = Len(blended)
               /\ final_audio' = truncate(blended,
                                     config.target_duration * sample_rate)
               /\ result' = [kind |-> "ok", audio |-> final_audio']
               /\ pc' = "done"
               /\ UNCHANGED <<segment_index, segment_requests, base_calls,
                              elapsed>>
    /\ UNCHANGED <<config, sample_rate, prompt, secs, total_segments,
                   reported, caller_abort, callback_result>>
    /\ UNCHANGED blend_vars

\* mutant: the failure ends the loop and what was accumulated is returned
SegmentFailReturnsPartial ==
    /\ pc = "segment"
    /\ pc' = "failed"
    /\ base_out' = [kind |-> "base_error", audio |-> <<>>]
    /\ result' = [kind |-> "ok", audio |-> final_audio]
    /\ UNCHANGED <<config, sample_rate, prompt, secs, total_segments,
                   segment_index, final_audio, all_full, accumulated,
                   segment_requests, base_calls, elapsed, reported,
                   caller_abort, callback_result>>
    /\ UNCHANGED blend_vars

\* generate(): generate_segment returned Err; `?` returns it and final_audio
\* is dropped
SegmentFail ==
    /\ pc = "segment"
    /\ pc' = "failed"
    /\ base_out' = [kind |-> "base_error", audio |-> <<>>]
    /\ result' = [kind |-> "segment_error", audio |-> <<>>]
    /\ final_audio' = <<>>
    /\ UNCHANGED <<config, sample_rate, prompt, secs, total_segments,
                   segment_index, all_full, accumulated, segment_requests,
                   base_calls, elapsed, reported, caller_abort,
                   callback_result>>
    /\ UNCHANGED blend_vars

\* the lengths the base processor may deliver for secs seconds
Deliveries(s) ==
    LET full == s * sample_rate
    IN {full} \cup (IF full > 0 THEN {full - 1} ELSE {})

Next ==
    \/ New
    \/ \E p \in Prompts, s \in Seconds : Process(p, s)
    \/ \E k \in 0..ProgressTotal, abort \in BOOLEAN : DirectProgress(k, abort)
    \/ \E len \in Deliveries(secs) : DirectReturn(len)
    \/ DirectFail
    \/ \E k \in 0..ProgressTotal, abort \in BOOLEAN : SegmentProgress(k, abort)
    \/ \E len \in Deliveries(safe_duration(config.segment_duration)) :
           SegmentReturn(len)
    \/ SegmentFail

Spec == Init /\ [][Next]_vars


(***************************************************************************)
(* crossfade_segments called on its own, as test_crossfade does            *)
(***************************************************************************)
Tenth == F32Div(F32FromInt(1), F32FromInt(10))

BlendSamples == {Tenth, F32FromInt(1)}

Buffers == UNION {[1..n -> BlendSamples] : n \in 0..MaxLen}

BlendInit ==
    /\ config = DefaultConfig
    /\ sample_rate = 1
    /\ pc = "blend"
    /\ prompt = ""
    /\ secs = 0
    /\ total_segments = 0
    /\ segment_index = 0
    /\ final_audio = <<>>
    /\ all_full = TRUE
    /\ accumulated = 0
    /\ segment_requests = <<>>
    /\ base_calls = <<>>
    /\ elapsed = -1
    /\ reported = NoReport
    /\ caller_abort = FALSE
    /\ callback_result = FALSE
    /\ base_out = NoOutcome
    /\ result = NoOutcome
    /\ segment1 \in Buffers
    /\ segment2 \in Buffers
    /\ overlap_samples \in 0..(MaxLen + 1)
    /\ crossfade_samples \in 0..(MaxLen + 1)
    /\ crossfaded = <<>>

Crossfade ==
    /\ pc = "blend"
    /\ pc' = "blended"
    /\ crossfaded' = crossfade_segments(segment1, segment2, overlap_samples,
                                        crossfade_samples)
    /\ UNCHANGED <<segment1, segment2, overlap_samples, crossfade_samples>>
    /\ UNCHANGED <<config, sample_rate, prompt, secs, total_segments,
                   segment_index, final_audio, all_full, accumulated,
                   segment_requests, base_calls, elapsed, reported,
                   caller_abort, callback_result, base_out, result>>

BlendNext == Crossfade

BlendSpec == BlendInit /\ [][BlendNext]_vars

(***************************************************************************)
(* Properties                                                              *)
(***************************************************************************)
Extended == pc \in {"segment", "done", "failed"} /\ secs > DirectLimit

Direct == pc \in {"direct", "done", "failed"} /\ secs <= DirectLimit

TargetSamples == config.target_duration * sample_rate

\* the least k with k * b >= a
CeilDiv(a, b) == CHOOSE k \in 0..a : k * b >= a /\ (k = 0 \/ (k - 1) * b < a)

EffectiveStep == config.segment_duration - config.overlap_duration

\* C1: when every segment came back with duration * sample_rate samples,
\* generate returns Ok with exactly target_duration * sample_rate samples, the
\* buffer before truncation was at least that long, and generate fails only
\* when a generate_segment call failed.
C1_ExactTargetLength ==
    /\ (Extended /\ pc = "done" /\ all_full) =>
          /\ result.kind = "ok"
          /\ Len(result.audio) = TargetSamples
          /\ accumulated >= TargetSamples
    /\ (Extended /\ pc = "done") => Len(result.audio) <= TargetSamples
    /\ (Extended /\ pc = "failed") => base_out.kind # "ok"

C1_Witness ==
    /\ Extended /\ pc = "done" /\ all_full
    /\ total_segments >= 3
    /\ sample_rate > 0
    /\ accumulated > TargetSamples
    /\ Len(result.audio) = TargetSamples

\* C2: on the extended path with every segment delivered in full, the
\* returned buffer has exactly secs * sample_rate samples, secs being the
\* duration the caller asked process() for.
C2_RequestedDuration ==
    (Extended /\ pc = "done" /\ all_full) =>
        Len(result.audio) = secs * sample_rate

\* C3: for secs <= 30 the base processor is called exactly once with the
\* caller's prompt, secs and callback, no segment is requested and the base
\* processor's outcome is returned as it is; for secs > 30 segments are
\* requested through the extended generator.
C3_ShortUsesBase ==
    /\ Direct =>
          /\ base_calls = <<[prompt |-> PlainPrompt(prompt), secs |-> secs,
                             callback |-> "caller"]>>
          /\ segment_requests = <<>>
          /\ callback_result = caller_abort
          /\ pc # "direct" => result = base_out
    /\ Extended =>
          /\ segment_requests # <<>>
          /\ Len(base_calls) = Len(segment_requests)
          /\ \A j \in 1..Len(base_calls) : base_calls[j].callback = "adapter"

C3_Witness ==
    /\ Direct /\ pc = "done"
    /\ sample_rate > 0
    /\ result.kind = "ok"
    /\ Len(result.audio) = secs * sample_rate

\* C4 as stated: for every validated plan the segment count is at least 1
\* and equals ceil(target_duration / (segment_duration - overlap_duration)).
C4_CeilExactly ==
    Extended =>
        /\ total_segments >= 1
        /\ total_segments = CeilDiv(config.target_duration, EffectiveStep)

\* C4 amended: for every validated plan the segment count is at least 1 and
\* equals the larger of 1 and ceil(target_duration / (segment_duration -
\* overlap_duration)); it is the ceiling itself whenever target_duration >= 1.
C4_CeilFlooredAtOne ==
    Extended =>
        /\ total_segments >= 1
        /\ total_segments * EffectiveStep >= config.target_duration
        /\ \/ total_segments = 1
           \/ (total_segments - 1) * EffectiveStep < config.target_duration
        /\ config.target_duration >= 1 =>
              total_segments = CeilDiv(config.target_duration, EffectiveStep)

C4_Witness ==
    /\ Extended
    /\ total_segments >= 2
    /\ config.target_duration % EffectiveStep # 0

\* C5: a plan with segment_duration > 30, overlap_duration >= segment_duration
\* or crossfade_duration > overlap_duration is rejected by new(), the default
\* plan is accepted, and no segment or base call is ever made for a rejected
\* plan.
C5_InvalidPlanRejected ==
    pc \in {"rejected", "ready", "direct", "segment", "done", "failed"} =>
        /\ (\/ config.segment_duration > 30
            \/ config.overlap_duration >= config.segment_duration
            \/ \E k \in (2 * config.overlap_duration + 1)..(MaxCrossfadeHalves + 1) :
                   config.crossfade_duration = Half(k))
           => (pc = "rejected" /\ result.kind = "config")
        /\ config = DefaultConfig => pc # "rejected"
        /\ pc = "rejected" =>
              /\ segment_requests = <<>>
              /\ base_calls = <<>>
              /\ result.audio = <<>>

C5_Witness ==
    /\ pc = "rejected"
    /\ config.segment_duration <= 30
    /\ config.overlap_duration = config.segment_duration
    /\ config.segment_duration > 0


Blended == pc = "blended"

\* x lies between a and b, inclusive
Between(x, a, b) ==
    \/ F32Le(a, x) /\ F32Le(x, b)
    \/ F32Le(b, x) /\ F32Le(x, a)

\* C6: with len(buf1) >= overlap (and fade <= overlap, which makes the
\* blended indices exist) the result has len(buf1) + len(buf2) -
\* min(fade, len(buf2)) samples, and the sample at len(buf1) - fade + k lies
\* between buf1[len(buf1) - fade + k] and buf2[k] for every k below
\* min(fade, len(buf2)).
C6_ConvexBlend ==
    (/\ Blended
     /\ Len(segment1) >= overlap_samples
     /\ crossfade_samples <= overlap_samples) =>
        LET taken == Min(crossfade_samples, Len(segment2))
            start == Len(segment1) - crossfade_samples
        IN /\ Len(crossfaded) = Len(segment1) + Len(segment2) - taken
           /\ \A k \in 0..(taken - 1) :
                  Between(crossfaded[start + k + 1],
                          segment1[start + k + 1], segment2[k + 1])

\* C7: with len(buf1) < overlap the result is buf1 followed by all of buf2,
\* every sample unchanged and in order, whatever fade is.
C7_FallbackConcatenates ==
    (Blended /\ Len(segment1) < overlap_samples) =>
        /\ Len(crossfaded) = Len(segment1) + Len(segment2)
        /\ \A j \in 1..Len(segment1) : crossfaded[j] = segment1[j]
        /\ \A j \in 1..Len(segment2) :
               crossfaded[Len(segment1) + j] = segment2[j]

C7_Witness ==
    /\ Blended
    /\ Len(segment1) < overlap_samples
    /\ Len(segment1) >= 2
    /\ Len(segment2) >= 2
    /\ crossfade_samples >= 2
    /\ segment1[2] # segment2[2]

\* C8: every sub-progress report of a segment reaches the caller's callback
\* once, as segment_index / num_segments + p / num_segments, and the values
\* the caller sees over the whole request never decrease and stay in [0, 1].
C8_ProgressMonotone ==
    [][(pc = "segment" /\ elapsed' > elapsed) =>
          /\ reported'.elapsed =
                 F32Add(F32Div(F32FromInt(segment_index),
                               F32FromInt(total_segments)),
                        F32Div(F32Div(F32FromInt(elapsed'),
                                      F32FromInt(ProgressTotal)),
                               F32FromInt(total_segments)))
          /\ F32Le(reported.elapsed, reported'.elapsed)
          /\ F32Le(reported'.elapsed, F32FromInt(1))]_vars

\* C9: segments are requested in index order 0, 1, ..; when the segment at
\* index i fails, the request fails with no samples, the accumulated buffer
\* is gone, segment i was requested once and no later segment was requested.
C9_FailFast ==
    /\ \A j \in 1..Len(segment_requests) :
           segment_requests[j].segment_index = j - 1
    /\ (Extended /\ pc = "failed") =>
          /\ result.kind = "segment_error"
          /\ result.audio = <<>>
          /\ final_audio = <<>>
          /\ Len(segment_requests) = segment_index + 1
          /\ Len(base_calls) = segment_index + 1

C9_Witness ==
    /\ Extended /\ pc = "failed"
    /\ segment_index >= 2
    /\ sample_rate > 0
    /\ result.kind = "segment_error"

\* C10: on the extended path the callback handed to the base processor
\* returns false whatever the caller's on_progress returned, the request is
\* never ended by an abort, every base call asks for min(segment_duration, 30)
\* seconds, and a finished request has requested all its segments and
\* returns a buffer; an abort ends only requests of at most 30 seconds.
C10_AbortDiscarded ==
    /\ Extended =>
          /\ callback_result = FALSE
          /\ result.kind # "aborted"
          /\ base_out.kind # "aborted"
          /\ \A j \in 1..Len(base_calls) :
                 base_calls[j].secs =
                     (IF config.segment_duration < 30
                      THEN config.segment_duration ELSE 30)
          /\ pc = "done" =>
                /\ result.kind = "ok"
                /\ Len(segment_requests) = total_segments
                /\ Len(base_calls) = total_segments
    /\ result.kind = "aborted" => (Direct /\ caller_abort)

C10_Witness ==
    /\ Extended /\ pc = "done"
    /\ caller_abort
    /\ total_segments >= 2
    /\ Len(result.audio) > 0

====
